---- MODULE Spec2Model ----
(***************************************************************************)
(* A model of the File class of fdp-storage (src/src/file/file.ts): the    *)
(* public operations uploadData, downloadData, delete, share,              *)
(* getSharedInfo, saveShared, downloadShared and downloadFromSharedPod,    *)
(* each an async function whose awaits are the steps of the model, running *)
(* against a content store, a feed service and a directory index.          *)
(*                                                                         *)
(* The collaborators (store, feed, directory, account, path and reference  *)
(* validation, the download handler, the metadata adapters) are imported   *)
(* by file.ts from modules that are not part of the sources; they are      *)
(* modelled from the specification of their interfaces.                    *)
(***************************************************************************)
EXTENDS Integers, Sequences, FiniteSets, TLC

\* ------------------------------------------------------------------ bounds

\* Longest payload, in bytes.
MaxLen == 5
\* Iterations of an upload loop that has no end (blocksCount = Infinity) that are explored.
MaxSpin == 2
\* Calls made in one behaviour of the block-level specification.
MaxBlockCalls == 2
\* Calls made in one behaviour of the sharing specification.
MaxCalls == 4
\* Calls made in one behaviour of the specification of failing remote calls.
MaxFailCalls == 2
MaxRaceCalls == 3

MaxTime == 2
MaxTimeCalls == 2

MaxLiveCalls == 6

\* Calls made in one behaviour of the specification of argument checks.
MaxCheckCalls == 1

\* --------------------------------------------------------------- constants

\* defaultUploadOptions.blockSize
DefaultBlockSize == 1000000
\* defaultUploadOptions.contentType
DefaultContentType == ""
\* META_VERSION of pod/utils
META_VERSION == "2.0.0"

\* ------------------------------------------------------------ pure helpers

Min(a, b) == IF a < b THEN a ELSE b
Max(a, b) == IF a > b THEN a ELSE b

\* The payload of n bytes used as input: byte i has value i, so that any
\* reordering, loss or duplication of bytes shows.
Payload(n) == [i \in 1..n |-> i]
\* A second family of payloads, sharing no byte value with the first.
AltPayload(n) == [i \in 1..n |-> 100 + i]

\* The options argument of uploadData: each of its properties is given (a
\* sequence of one value) or left out (the empty sequence).
Options(blockSize, contentType) == [blockSize |-> blockSize, contentType |-> contentType]
NoOptions == Options(<<>>, <<>>)

\* options = { ...this.defaultUploadOptions, ...options }: the caller's
\* blockSize when given, the default otherwise.
MergeBlockSize(options) ==
  IF options.blockSize = <<>> THEN DefaultBlockSize ELSE options.blockSize[1]
\* The same for the contentType.
MergeContentType(options) ==
  IF options.contentType = <<>> THEN DefaultContentType ELSE options.contentType[1]

\* Math.ceil(length / blockSize) in IEEE arithmetic: Infinity for n / 0 with
\* n > 0, NaN for 0 / 0, and for a negative divisor the quotient rounded
\* towards zero, which is zero or negative.
CeilDiv(a, b) == (a + b - 1) \div b
\* Mutant: Math.floor in place of Math.ceil, so the remainder gets no block.
BlocksCountFloor(length, blockSize) ==
  IF blockSize > 0 THEN [kind |-> "num", n |-> length \div blockSize]
  ELSE IF blockSize = 0
       THEN IF length > 0 THEN [kind |-> "inf", n |-> 0] ELSE [kind |-> "nan", n |-> 0]
       ELSE [kind |-> "num", n |-> 0 - (length \div (0 - blockSize))]
BlocksCount(length, blockSize) ==
  IF blockSize > 0 THEN [kind |-> "num", n |-> CeilDiv(length, blockSize)]
  ELSE IF blockSize = 0
       THEN IF length > 0 THEN [kind |-> "inf", n |-> 0] ELSE [kind |-> "nan", n |-> 0]
       ELSE [kind |-> "num", n |-> 0 - (length \div (0 - blockSize))]

\* The loop condition i < blocksCount.
LoopCond(i, count) ==
  CASE count.kind = "num" -> i < count.n
    [] count.kind = "inf" -> TRUE
    [] count.kind = "nan" -> FALSE

\* Uint8Array.prototype.slice(begin, end): a negative index counts from the
\* end, both are clamped to the array, an empty range gives the empty array.
SliceIndex(k, len) == IF k < 0 THEN Max(len + k, 0) ELSE Min(k, len)
SliceFrom(begin, len) == SliceIndex(begin, len)
SliceTo(end, len) == SliceIndex(end, len)
Slice(data, begin, end) ==
  LET from == SliceFrom(begin, Len(data))
      to   == SliceTo(end, Len(data))
  IN IF to <= from THEN <<>> ELSE SubSeq(data, from + 1, to)

\* Mutant: the end of the slice taken as inclusive.
CurrentBlockInclusive(data, i, blockSize) == Slice(data, i * blockSize, (i + 1) * blockSize + 1)
\* The block of index i: data.slice(i * blockSize, (i + 1) * blockSize).
CurrentBlock(data, i, blockSize) == Slice(data, i * blockSize, (i + 1) * blockSize)

\* generateBlockName(i): a name derived from the block's index alone.
generateBlockName(i) == <<"block", i>>

\* Concatenation of a sequence of byte sequences, in order.
RECURSIVE Join(_)
Join(parts) ==
  IF parts = <<>> THEN <<>> ELSE Head(parts) \o Join(Tail(parts))

RECURSIVE SumSizes(_)
SumSizes(blocks) ==
  IF blocks = <<>> THEN 0 ELSE Head(blocks).size + SumSizes(Tail(blocks))

NoError == ""

\* ----------------------------------------------------- paths and pod names

\* A path is the sequence of its segments: "/" is <<>>, "/d/f" is <<"d","f">>.
\* assertFullPathWithName: the path names a leaf, and the leaf is not empty.
ValidFullPathWithName(fullPath) ==
  /\ Len(fullPath) >= 1
  /\ fullPath[Len(fullPath)] # ""

\* extractPathInfo(fullPath): the directory and the leaf name.
extractPathInfo(fullPath) ==
  [path     |-> SubSeq(fullPath, 1, Len(fullPath) - 1),
   filename |-> fullPath[Len(fullPath)]]

\* combine(parentPath, fileName): the full path of a name in a directory.
combine(parentPath, fileName) == Append(parentPath, fileName)

\* assertPodName: a pod name is a non-empty string.
ValidPodName(podName) == podName # ""

\* ------------------------------------------------------ account and pods

\* A File object is built over one AccountData; "owner" holds an account,
\* "guest" holds none.
Clients == {"owner", "guest"}
HasAccount(client) == client = "owner"

\* The pods of the account.
Pods == {"pod1", "pod2"}
PodAddress(podName) == <<"address", podName>>
\* getExtendedPodsListByAccountData: podAddress and podWallet of a pod.
PodWallet(podName) == [address |-> PodAddress(podName), privateKey |-> <<"key", podName>>]
\* The error of getExtendedPodsListByAccountData, or NoError.
LookupError(client, podName) ==
  IF ~HasAccount(client) THEN "NotAuthenticated"
  ELSE IF podName \notin Pods THEN "PodNotFound"
  ELSE NoError
\* The feed owner a private key signs for.
OwnerOfKey(privateKey) == <<"address", privateKey[2]>>

\* ----------------------------------------------------------------- state

VARIABLES
  store,   \* the content store: the set of objects put so far
  feed,    \* the feed service: the latest payload of each (owner, topic)
  dir,     \* the directory index: the entries registered
  now,     \* the clock read by getUnixTimestamp
  tasks,   \* the calls in progress: arguments, locals and the pending await
  calls,   \* the number of calls made so far
  hist     \* the calls that have returned or thrown, in order of completion

vars == <<store, feed, dir, now, tasks, calls, hist>>

\* ------------------------------------------------- store, feed, directory

\* What the store holds: raw bytes, a manifest document, a share capsule.
BytesObject(bytes) == [kind |-> "bytes", bytes |-> bytes]
\* stringToBytes(blocksToManifest(blocks)): the document listing the block
\* descriptors in collection order.
blocksToManifest(blocks) == [kind |-> "manifest", blocks |-> blocks]
\* Parsing a manifest document back into the block descriptors.
ManifestBlocks(object) == object.blocks
\* stringToBytes(JSON.stringify(shareInfo))
ShareObject(info) == [kind |-> "fileShare", info |-> info]
\* The capsule of a shared pod, written by the pod API.
PodShareObject(podName) ==
  [kind |-> "podShare", info |-> [pod_address |-> PodAddress(podName), pod_name |-> podName]]

\* References. uploadBytes returns the encrypted reference of what it stored;
\* a reference is modelled by the object it addresses (no two objects share
\* an address).
Ref(object) == [shape |-> "encrypted", of |-> object]
\* A string that is not an encrypted reference.
BadRef == [shape |-> "malformed"]
\* A well-formed reference to nothing in the store.
MissingRef == [shape |-> "encrypted", of |-> [kind |-> "nothing"]]
\* assertEncryptedReference
IsEncryptedReference(ref) == ref.shape = "encrypted"

\* The store after uploadBytes(connection, data).
PutObject(s, object) == s \cup {object}
InStore(s, ref) == IsEncryptedReference(ref) /\ ref.of \in s

\* writeFeedData(connection, topic, payload, privateKey)
WriteFeed(f, privateKey, topic, payload) ==
  {e \in f : ~(e.owner = OwnerOfKey(privateKey) /\ e.topic = topic)}
    \cup {[owner |-> OwnerOfKey(privateKey), topic |-> topic, payload |-> payload]}
\* The feed entries of (owner, topic): none, or the latest one.
ResolveFeed(f, owner, topic) == {e \in f : e.owner = owner /\ e.topic = topic}

\* addEntryToDirectory / removeEntryFromDirectory(connection, wallet, path, name, isFile)
DirEntry(wallet, path, name, isFile) ==
  [owner |-> wallet.address, path |-> path, name |-> name, isFile |-> isFile]
AddEntry(d, wallet, path, name, isFile) == d \cup {DirEntry(wallet, path, name, isFile)}
RemoveEntry(d, wallet, path, name, isFile) == d \ {DirEntry(wallet, path, name, isFile)}

\* ---------------------------------------------------------------- metadata

\* The FileMetadata record uploadData builds.
UploadMeta(podName, fullPath, data, blockSize, contentType, time, blocksReference) ==
  [version          |-> META_VERSION,
   podAddress       |-> PodAddress(podName),
   podName          |-> podName,
   filePath         |-> extractPathInfo(fullPath).path,
   fileName         |-> extractPathInfo(fullPath).filename,
   fileSize         |-> Len(data),
   blockSize        |-> blockSize,
   contentType      |-> contentType,
   compression      |-> "",
   creationTime     |-> time,
   accessTime       |-> time,
   modificationTime |-> time,
   blocksReference  |-> blocksReference]

\* getFileMetadataRawBytes(meta): the raw record published to the feed.
getFileMetadataRaw(meta) ==
  [version            |-> meta.version,
   user_address       |-> meta.podAddress,
   pod_name           |-> meta.podName,
   file_path          |-> meta.filePath,
   file_name          |-> meta.fileName,
   file_size          |-> meta.fileSize,
   block_size         |-> meta.blockSize,
   content_type       |-> meta.contentType,
   compression        |-> meta.compression,
   creation_time      |-> meta.creationTime,
   access_time        |-> meta.accessTime,
   modification_time  |-> meta.modificationTime,
   file_inode_address |-> meta.blocksReference]

\* rawFileMetadataToFileMetadata(raw)
rawFileMetadataToFileMetadata(raw) ==
  [version          |-> raw.version,
   podAddress       |-> raw.user_address,
   podName          |-> raw.pod_name,
   filePath         |-> raw.file_path,
   fileName         |-> raw.file_name,
   fileSize         |-> raw.file_size,
   blockSize        |-> raw.block_size,
   contentType      |-> raw.content_type,
   compression      |-> raw.compression,
   creationTime     |-> raw.creation_time,
   accessTime       |-> raw.access_time,
   modificationTime |-> raw.modification_time,
   blocksReference  |-> raw.file_inode_address]

\* updateFileMetadata(meta, podName, filePath, fileName, podAddress): the
\* record rewritten for the importing pod, its content fields kept.
updateFileMetadata(meta, podName, filePath, fileName, podAddress) ==
  [meta EXCEPT !.podName = podName, !.filePath = filePath,
               !.fileName = fileName, !.podAddress = podAddress]

\* The record a directory has in its feed, written by the directory API.
DirectoryRecord(path, name) ==
  [meta |-> [version |-> META_VERSION, path |-> path, name |-> name],
   file_or_dir_names |-> <<>>]
\* assertRawFileMetadata(meta): the record read from a feed is that of a file.
IsRawFileMetadata(raw) ==
  {"file_path", "file_name", "file_size", "file_inode_address"} \subseteq DOMAIN raw

\* createFileShareInfo(meta, podAddress)
createFileShareInfo(rawMeta, podAddress) ==
  [meta |-> rawMeta, source_address |-> podAddress]

\* ------------------------------------------------------------------- tasks

Tasks == {1, 2}

NoCount == [kind |-> "num", n |-> 0]

\* A call that has not started.
IdleTask ==
  [op |-> "none", client |-> "owner", pod |-> "", path |-> <<>>, data |-> <<>>,
   options |-> NoOptions, ref |-> BadRef, name |-> <<>>,
   pc |-> "idle", error |-> NoError, log |-> <<>>,
   blockSize |-> 0, time |-> 0, count |-> NoCount, i |-> 0, blocks |-> <<>>,
   meta |-> <<>>, info |-> <<>>, address |-> <<>>, topic |-> <<>>,
   bytes |-> <<>>, result |-> <<>>, after |-> 0]

\* A call with its arguments, before its first statement. The payload is
\* given as bytes (a string is first turned into its bytes). `after` is the
\* number of calls that had ended when this one was made.
NewTask(c) ==
  [IdleTask EXCEPT !.op = c.op, !.client = c.client, !.pod = c.pod, !.path = c.path,
                   !.data = c.data, !.options = c.options, !.ref = c.ref,
                   !.name = c.name, !.after = Len(hist)]

\* A call made by c: the arguments that its operation does not take stay at
\* the values of IdleTask.
Call(op, client, pod, path, data, options, ref, name) ==
  [op |-> op, client |-> client, pod |-> pod, path |-> path, data |-> data,
   options |-> options, ref |-> ref, name |-> name]

CanStart(t) == tasks[t].pc = "idle"

\* The call goes on to await `pc`.
Await(r, pc) == [r EXCEPT !.pc = pc]
\* The remote call the task awaits is made: it is added to the task's log.
Logged(r) == [r EXCEPT !.log = Append(r.log, r.pc)]
\* The call throws.
Thrown(r, error) == [r EXCEPT !.pc = "failed", !.error = error]
\* The call returns.
Returned(r, result) == [r EXCEPT !.pc = "done", !.result = <<result>>]

\* The task's next state: a call that has returned or thrown is moved to the
\* history, and the task is free for the next call.
Step(t, r) ==
  IF r.pc \in {"done", "failed"}
  THEN /\ tasks' = [tasks EXCEPT ![t] = IdleTask]
       /\ hist' = Append(hist, r)
  ELSE /\ tasks' = [tasks EXCEPT ![t] = r]
       /\ UNCHANGED hist

Init ==
  /\ store = {}
  /\ feed = {}
  /\ dir = {}
  /\ now = 0
  /\ tasks = [t \in Tasks |-> IdleTask]
  /\ calls = 0
  /\ hist = <<>>

\* ------------------------------------------------------------- uploadData

\* The statements of uploadData before its first await: the checks of the
\* account, the pod name and the path. The error thrown, or NoError.
UploadValidate(c) ==
  IF ~HasAccount(c.client) THEN "NotAuthenticated"
  ELSE IF ~ValidPodName(c.pod) THEN "InvalidPodName"
  ELSE IF ~ValidFullPathWithName(c.path) THEN "InvalidPath"
  ELSE NoError

\* Mutant: the loop left after its first iteration.
UploadLoopPcOnce(i, count) == IF i < 1 /\ LoopCond(i, count) THEN "putBlock" ELSE "putManifest"
\* for (let i = 0; i < blocksCount; i++): the await the loop goes to.
UploadLoopPc(i, count) == IF LoopCond(i, count) THEN "putBlock" ELSE "putManifest"

\* The descriptor pushed for block i.
BlockDescriptor(data, i, blockSize) ==
  [name           |-> generateBlockName(i),
   size           |-> Len(CurrentBlock(data, i, blockSize)),
   compressedSize |-> Len(CurrentBlock(data, i, blockSize)),
   reference      |-> Ref(BytesObject(CurrentBlock(data, i, blockSize)))]

StartUpload(t, c) ==
  /\ c.op = "uploadData"
  /\ CanStart(t)
  /\ calls' = calls + 1
  /\ LET r == [NewTask(c) EXCEPT !.blockSize = MergeBlockSize(c.options)]
     IN IF UploadValidate(c) # NoError
        THEN Step(t, Thrown(r, UploadValidate(c)))
        ELSE Step(t, Await(r, "podLookup"))
  /\ UNCHANGED <<store, feed, dir, now>>

\* await getExtendedPodsListByAccountData, then the statements up to the
\* first block upload.
UploadLookup(t) ==
  /\ tasks[t].op = "uploadData"
  /\ tasks[t].pc = "podLookup"
  /\ LET r == Logged(tasks[t])
         count == BlocksCount(Len(r.data), r.blockSize)
     IN IF LookupError(r.client, r.pod) # NoError
        THEN Step(t, Thrown(r, LookupError(r.client, r.pod)))
        ELSE Step(t, Await([r EXCEPT !.address = PodAddress(r.pod), !.time = now,
                                     !.count = count, !.i = 0, !.blocks = <<>>],
                           UploadLoopPc(0, count)))
  /\ UNCHANGED <<store, feed, dir, now, calls>>

\* await uploadBytes(connection, currentBlock), the push and i++.
UploadBlock(t) ==
  /\ tasks[t].op = "uploadData"
  /\ tasks[t].pc = "putBlock"
  /\ tasks[t].count.kind = "inf" => tasks[t].i < MaxSpin
  /\ LET r == Logged(tasks[t])
     IN /\ store' = PutObject(store, BytesObject(CurrentBlock(r.data, r.i, r.blockSize)))
        /\ Step(t, Await([r EXCEPT !.blocks = Append(r.blocks, BlockDescriptor(r.data, r.i, r.blockSize)),
                                   !.i = r.i + 1],
                         UploadLoopPc(r.i + 1, r.count)))
  /\ UNCHANGED <<feed, dir, now, calls>>

\* Mutant: the block list kept in one place for all the calls in progress.
UploadManifestSharedBlocks(t) ==
  /\ tasks[t].op = "uploadData"
  /\ tasks[t].pc = "putManifest"
  /\ LET r == Logged(tasks[t])
         others == {u \in Tasks \ {t} : tasks[u].op = "uploadData"}
         manifest == blocksToManifest(IF others = {} THEN r.blocks
                                      ELSE tasks[CHOOSE u \in others : TRUE].blocks \o r.blocks)
     IN /\ store' = PutObject(store, manifest)
        /\ Step(t, Await([r EXCEPT !.meta = <<UploadMeta(r.pod, r.path, r.data, r.blockSize,
                                                         MergeContentType(r.options),
                                                         r.time, Ref(manifest))>>],
                         "addEntry"))
  /\ UNCHANGED <<feed, dir, now, calls>>

\* await uploadBytes(connection, manifestBytes), then the metadata record.
UploadManifest(t) ==
  /\ tasks[t].op = "uploadData"
  /\ tasks[t].pc = "putManifest"
  /\ LET r == Logged(tasks[t])
         manifest == blocksToManifest(r.blocks)
     IN /\ store' = PutObject(store, manifest)
        /\ Step(t, Await([r EXCEPT !.meta = <<UploadMeta(r.pod, r.path, r.data, r.blockSize,
                                                         MergeContentType(r.options),
                                                         r.time, Ref(manifest))>>],
                         "addEntry"))
  /\ UNCHANGED <<feed, dir, now, calls>>

\* Mutant: a name the directory already lists refused.
UploadAddEntryOnce(t) ==
  /\ tasks[t].op = "uploadData"
  /\ tasks[t].pc = "addEntry"
  /\ LET r == Logged(tasks[t])
         pathInfo == extractPathInfo(r.path)
     IN IF DirEntry(PodWallet(r.pod), pathInfo.path, pathInfo.filename, TRUE) \in dir
        THEN /\ Step(t, Thrown(r, "AlreadyListed"))
             /\ UNCHANGED dir
        ELSE /\ dir' = AddEntry(dir, PodWallet(r.pod), pathInfo.path, pathInfo.filename, TRUE)
             /\ Step(t, Await(r, "publish"))
  /\ UNCHANGED <<store, feed, now, calls>>

\* await addEntryToDirectory(connection, podWallet, path, filename, true)
UploadAddEntry(t) ==
  /\ tasks[t].op = "uploadData"
  /\ tasks[t].pc = "addEntry"
  /\ LET r == Logged(tasks[t])
         pathInfo == extractPathInfo(r.path)
     IN /\ dir' = AddEntry(dir, PodWallet(r.pod), pathInfo.path, pathInfo.filename, TRUE)
        /\ Step(t, Await(r, "publish"))
  /\ UNCHANGED <<store, feed, now, calls>>

\* await writeFeedData(connection, fullPath, rawBytes, privateKey); return meta
UploadPublish(t) ==
  /\ tasks[t].op = "uploadData"
  /\ tasks[t].pc = "publish"
  /\ LET r == Logged(tasks[t])
     IN /\ feed' = WriteFeed(feed, PodWallet(r.pod).privateKey, r.path,
                             getFileMetadataRaw(r.meta[1]))
        /\ Step(t, Returned(r, r.meta[1]))
  /\ UNCHANGED <<store, dir, now, calls>>

\* ----------------------------------------------------------- downloadData

DownloadValidate(c) ==
  IF ~HasAccount(c.client) THEN "NotAuthenticated"
  ELSE IF ~ValidPodName(c.pod) THEN "InvalidPodName"
  ELSE IF ~ValidFullPathWithName(c.path) THEN "InvalidPath"
  ELSE NoError

StartDownload(t, c) ==
  /\ c.op = "downloadData"
  /\ CanStart(t)
  /\ calls' = calls + 1
  /\ IF DownloadValidate(c) # NoError
     THEN Step(t, Thrown(NewTask(c), DownloadValidate(c)))
     ELSE Step(t, Await(NewTask(c), "podLookup"))
  /\ UNCHANGED <<store, feed, dir, now>>

\* await getExtendedPodsListByAccountData, then the call of the handler's
\* downloadData(bee, fullPath, podAddress).
DownloadLookup(t) ==
  /\ tasks[t].op = "downloadData"
  /\ tasks[t].pc = "podLookup"
  /\ LET r == Logged(tasks[t])
     IN IF LookupError(r.client, r.pod) # NoError
        THEN Step(t, Thrown(r, LookupError(r.client, r.pod)))
        ELSE Step(t, Await([r EXCEPT !.address = PodAddress(r.pod), !.topic = r.path],
                           "resolveFeed"))
  /\ UNCHANGED <<store, feed, dir, now, calls>>

\* The handler's downloadData(bee, fullPath, address), shared by downloadData,
\* downloadShared and downloadFromSharedPod: resolve the feed of the path,
\* fetch the manifest, fetch the blocks in manifest order, join them.
DownloadOps == {"downloadData", "downloadShared", "downloadFromSharedPod"}

HandlerResolve(t) ==
  /\ tasks[t].op \in DownloadOps
  /\ tasks[t].pc = "resolveFeed"
  /\ LET r == Logged(tasks[t])
         found == ResolveFeed(feed, r.address, r.topic)
     IN IF found = {}
        THEN Step(t, Thrown(r, "NotFound"))
        ELSE IF ~IsRawFileMetadata((CHOOSE e \in found : TRUE).payload)
        THEN Step(t, Thrown(r, "InvalidMetadata"))
        ELSE Step(t, Await([r EXCEPT !.meta = <<rawFileMetadataToFileMetadata(
                                                  (CHOOSE e \in found : TRUE).payload)>>],
                           "getManifest"))
  /\ UNCHANGED <<store, feed, dir, now, calls>>

\* The handler's loop over the blocks: the await it goes to, or the return.
HandlerLoop(r) ==
  IF r.i < Len(r.blocks) THEN Await(r, "getBlock") ELSE Returned(r, r.bytes)

HandlerManifest(t) ==
  /\ tasks[t].op \in DownloadOps
  /\ tasks[t].pc = "getManifest"
  /\ LET r == Logged(tasks[t])
         ref == r.meta[1].blocksReference
     IN IF ~InStore(store, ref)
        THEN Step(t, Thrown(r, "NotFound"))
        ELSE IF ref.of.kind # "manifest"
        THEN Step(t, Thrown(r, "CorruptManifest"))
        ELSE Step(t, HandlerLoop([r EXCEPT !.blocks = ManifestBlocks(ref.of), !.i = 0,
                                           !.bytes = <<>>]))
  /\ UNCHANGED <<store, feed, dir, now, calls>>

HandlerBlock(t) ==
  /\ tasks[t].op \in DownloadOps
  /\ tasks[t].pc = "getBlock"
  /\ LET r == Logged(tasks[t])
         ref == r.blocks[r.i + 1].reference
     IN IF ~InStore(store, ref) \/ ref.of.kind # "bytes"
        THEN Step(t, Thrown(r, "IncompleteBlocks"))
        ELSE Step(t, HandlerLoop([r EXCEPT !.bytes = r.bytes \o ref.of.bytes,
                                           !.i = r.i + 1]))
  /\ UNCHANGED <<store, feed, dir, now, calls>>

\* ------------------------------------------------------------------ delete

\* Mutant: the account asserted after the arguments.
DeleteValidateArgumentsFirst(c) ==
  IF ~ValidFullPathWithName(c.path) THEN "InvalidPath"
  ELSE IF ~ValidPodName(c.pod) THEN "InvalidPodName"
  ELSE IF ~HasAccount(c.client) THEN "NotAuthenticated"
  ELSE NoError

DeleteValidate(c) ==
  IF ~HasAccount(c.client) THEN "NotAuthenticated"
  ELSE IF ~ValidFullPathWithName(c.path) THEN "InvalidPath"
  ELSE IF ~ValidPodName(c.pod) THEN "InvalidPodName"
  ELSE NoError

StartDelete(t, c) ==
  /\ c.op = "delete"
  /\ CanStart(t)
  /\ calls' = calls + 1
  /\ IF DeleteValidate(c) # NoError
     THEN Step(t, Thrown(NewTask(c), DeleteValidate(c)))
     ELSE Step(t, Await(NewTask(c), "podLookup"))
  /\ UNCHANGED <<store, feed, dir, now>>

\* await getExtendedPodsListByAccountData: the wallet removeEntry is called with.
DeleteLookup(t) ==
  /\ tasks[t].op = "delete"
  /\ tasks[t].pc = "podLookup"
  /\ LET r == Logged(tasks[t])
     IN IF LookupError(r.client, r.pod) # NoError
        THEN Step(t, Thrown(r, LookupError(r.client, r.pod)))
        ELSE Step(t, Await([r EXCEPT !.address = PodAddress(r.pod)], "removeEntry"))
  /\ UNCHANGED <<store, feed, dir, now, calls>>

\* Mutant: delete retracting the feed of the path too.
DeleteEffectErasing(d, s, f, podName, fullPath) ==
  [dir   |-> RemoveEntry(d, PodWallet(podName), extractPathInfo(fullPath).path,
                         extractPathInfo(fullPath).filename, TRUE),
   store |-> s,
   feed  |-> {e \in f : ~(e.owner = PodAddress(podName) /\ e.topic = fullPath)}]
\* What delete changes: the directory, the store and the feed after
\* removeEntryFromDirectory(connection, podWallet, path, filename, true).
DeleteEffect(d, s, f, podName, fullPath) ==
  [dir   |-> RemoveEntry(d, PodWallet(podName), extractPathInfo(fullPath).path,
                         extractPathInfo(fullPath).filename, TRUE),
   store |-> s,
   feed  |-> f]

DeleteRemove(t) ==
  /\ tasks[t].op = "delete"
  /\ tasks[t].pc = "removeEntry"
  /\ LET r == Logged(tasks[t])
         after == DeleteEffect(dir, store, feed, r.pod, r.path)
     IN /\ dir' = after.dir
        /\ store' = after.store
        /\ feed' = after.feed
        /\ Step(t, Returned(r, <<>>))
  /\ UNCHANGED <<now, calls>>

\* ------------------------------------------------------------------- share

ShareValidate(c) ==
  IF ~HasAccount(c.client) THEN "NotAuthenticated"
  ELSE IF ~ValidFullPathWithName(c.path) THEN "InvalidPath"
  ELSE IF ~ValidPodName(c.pod) THEN "InvalidPodName"
  ELSE NoError

StartShare(t, c) ==
  /\ c.op = "share"
  /\ CanStart(t)
  /\ calls' = calls + 1
  /\ IF ShareValidate(c) # NoError
     THEN Step(t, Thrown(NewTask(c), ShareValidate(c)))
     ELSE Step(t, Await(NewTask(c), "podLookup"))
  /\ UNCHANGED <<store, feed, dir, now>>

ShareLookup(t) ==
  /\ tasks[t].op = "share"
  /\ tasks[t].pc = "podLookup"
  /\ LET r == Logged(tasks[t])
     IN IF LookupError(r.client, r.pod) # NoError
        THEN Step(t, Thrown(r, LookupError(r.client, r.pod)))
        ELSE Step(t, Await([r EXCEPT !.address = PodAddress(r.pod)], "getMetadata"))
  /\ UNCHANGED <<store, feed, dir, now, calls>>

\* Mutant: the capsule built with the account's address in place of the pod's.
ShareCapsuleOfAccount(rawMeta, podAddress) ==
  ShareObject(createFileShareInfo(rawMeta, <<"address", "account">>))
\* The capsule share uploads: the raw metadata read from the feed and the
\* address of the pod it was read from.
ShareCapsule(rawMeta, podAddress) == ShareObject(createFileShareInfo(rawMeta, podAddress))

\* await getRawMetadata(bee, fullPath, podAddress), then the capsule.
ShareGetMetadata(t) ==
  /\ tasks[t].op = "share"
  /\ tasks[t].pc = "getMetadata"
  /\ LET r == Logged(tasks[t])
         found == ResolveFeed(feed, r.address, r.path)
     IN IF found = {}
        THEN Step(t, Thrown(r, "NotFound"))
        ELSE IF ~IsRawFileMetadata((CHOOSE e \in found : TRUE).payload)
        THEN Step(t, Thrown(r, "InvalidMetadata"))
        ELSE Step(t, Await([r EXCEPT !.info = <<ShareCapsule((CHOOSE e \in found : TRUE).payload,
                                                             r.address)>>],
                           "putShare"))
  /\ UNCHANGED <<store, feed, dir, now, calls>>

\* return (await uploadBytes(connection, data)).reference
SharePut(t) ==
  /\ tasks[t].op = "share"
  /\ tasks[t].pc = "putShare"
  /\ LET r == Logged(tasks[t])
     IN /\ store' = PutObject(store, r.info[1])
        /\ Step(t, Returned(r, Ref(r.info[1])))
  /\ UNCHANGED <<feed, dir, now, calls>>

\* ----------------------------------------------------------- getSharedInfo

\* Mutant: an account asserted before the reference is looked at.
SharedInfoValidateAccount(c) ==
  IF ~HasAccount(c.client) THEN "NotAuthenticated"
  ELSE IF ~IsEncryptedReference(c.ref) THEN "InvalidReference"
  ELSE NoError

\* getSharedInfo's statement before its await: assertEncryptedReference.
SharedInfoValidate(c) ==
  IF ~IsEncryptedReference(c.ref) THEN "InvalidReference" ELSE NoError

StartGetSharedInfo(t, c) ==
  /\ c.op = "getSharedInfo"
  /\ CanStart(t)
  /\ calls' = calls + 1
  /\ IF SharedInfoValidate(c) # NoError
     THEN Step(t, Thrown(NewTask(c), SharedInfoValidate(c)))
     ELSE Step(t, Await(NewTask(c), "getShare"))
  /\ UNCHANGED <<store, feed, dir, now>>

\* getSharedFileInfo(bee, reference): the error of fetching and parsing the
\* capsule, or NoError.
SharedInfoError(s, ref) ==
  IF ~InStore(s, ref) THEN "NotFound"
  ELSE IF ref.of.kind # "fileShare" THEN "CorruptShareInfo"
  ELSE NoError

GetSharedInfoFetch(t) ==
  /\ tasks[t].op = "getSharedInfo"
  /\ tasks[t].pc = "getShare"
  /\ LET r == Logged(tasks[t])
     IN IF SharedInfoError(store, r.ref) # NoError
        THEN Step(t, Thrown(r, SharedInfoError(store, r.ref)))
        ELSE Step(t, Returned(r, r.ref.of.info))
  /\ UNCHANGED <<store, feed, dir, now, calls>>

\* -------------------------------------------------------------- saveShared

\* saveShared's statements before its first await: assertPodName, then
\* getSharedInfo's assertEncryptedReference.
SaveSharedValidate(c) ==
  IF ~ValidPodName(c.pod) THEN "InvalidPodName"
  ELSE SharedInfoValidate(c)

StartSaveShared(t, c) ==
  /\ c.op = "saveShared"
  /\ CanStart(t)
  /\ calls' = calls + 1
  /\ IF SaveSharedValidate(c) # NoError
     THEN Step(t, Thrown(NewTask(c), SaveSharedValidate(c)))
     ELSE Step(t, Await(NewTask(c), "getShare"))
  /\ UNCHANGED <<store, feed, dir, now>>

\* const sharedInfo = await this.getSharedInfo(reference)
SaveSharedFetch(t) ==
  /\ tasks[t].op = "saveShared"
  /\ tasks[t].pc = "getShare"
  /\ LET r == Logged(tasks[t])
     IN IF SharedInfoError(store, r.ref) # NoError
        THEN Step(t, Thrown(r, SharedInfoError(store, r.ref)))
        ELSE Step(t, Await([r EXCEPT !.info = <<r.ref.of.info>>], "podLookup"))
  /\ UNCHANGED <<store, feed, dir, now, calls>>

\* Mutant: the name option ignored.
SavedFileNameOriginal(name, info) == info.meta.file_name
\* options?.name ?? sharedInfo.meta.file_name
SavedFileName(name, info) == IF name = <<>> THEN info.meta.file_name ELSE name[1]

\* Mutant: the saved record pointing at a manifest of its own, without blocks.
SavedMetaEmptied(info, podName, parentPath, name) ==
  updateFileMetadata([rawFileMetadataToFileMetadata(info.meta)
                        EXCEPT !.blocksReference = Ref(blocksToManifest(<<>>))],
                     podName, parentPath, SavedFileName(name, info), PodAddress(podName))

\* The metadata saveShared publishes for the importing pod.
SavedMeta(info, podName, parentPath, name) ==
  updateFileMetadata(rawFileMetadataToFileMetadata(info.meta), podName, parentPath,
                     SavedFileName(name, info), PodAddress(podName))

\* await getExtendedPodsListByAccountData, then the metadata rewritten for
\* the importing pod and the full path.
SaveSharedLookup(t) ==
  /\ tasks[t].op = "saveShared"
  /\ tasks[t].pc = "podLookup"
  /\ LET r == Logged(tasks[t])
     IN IF LookupError(r.client, r.pod) # NoError
        THEN Step(t, Thrown(r, LookupError(r.client, r.pod)))
        ELSE Step(t, Await([r EXCEPT !.address = PodAddress(r.pod),
                                     !.meta = <<SavedMeta(r.info[1], r.pod, r.path, r.name)>>,
                                     !.topic = combine(r.path, SavedFileName(r.name, r.info[1]))],
                           "addEntry"))
  /\ UNCHANGED <<store, feed, dir, now, calls>>

\* The directory index refuses a parent path with an empty segment and an
\* empty entry name.
ValidDirEntry(parentPath, name) ==
  /\ \A k \in 1..Len(parentPath) : parentPath[k] # ""
  /\ name # ""

\* await addEntryToDirectory(connection, podWallet, parentPath, fileName, true)
SaveSharedAddEntry(t) ==
  /\ tasks[t].op = "saveShared"
  /\ tasks[t].pc = "addEntry"
  /\ LET r == Logged(tasks[t])
         fileName == r.meta[1].fileName
     IN IF ~ValidDirEntry(r.path, fileName)
        THEN /\ Step(t, Thrown(r, "InvalidPath"))
             /\ UNCHANGED dir
        ELSE /\ dir' = AddEntry(dir, PodWallet(r.pod), r.path, fileName, TRUE)
             /\ Step(t, Await(r, "publish"))
  /\ UNCHANGED <<store, feed, now, calls>>

\* await writeFeedData(connection, fullPath, rawBytes, privateKey); return meta
SaveSharedPublish(t) ==
  /\ tasks[t].op = "saveShared"
  /\ tasks[t].pc = "publish"
  /\ LET r == Logged(tasks[t])
     IN /\ feed' = WriteFeed(feed, PodWallet(r.pod).privateKey, r.topic,
                             getFileMetadataRaw(r.meta[1]))
        /\ Step(t, Returned(r, r.meta[1]))
  /\ UNCHANGED <<store, dir, now, calls>>

\* ---------------------------------------------------------- downloadShared

StartDownloadShared(t, c) ==
  /\ c.op = "downloadShared"
  /\ CanStart(t)
  /\ calls' = calls + 1
  /\ IF SharedInfoValidate(c) # NoError
     THEN Step(t, Thrown(NewTask(c), SharedInfoValidate(c)))
     ELSE Step(t, Await(NewTask(c), "getShare"))
  /\ UNCHANGED <<store, feed, dir, now>>

\* Mutant: the fetched metadata also published, to a feed of the reader.
DownloadSharedFetchPublishing(t) ==
  /\ tasks[t].op = "downloadShared"
  /\ tasks[t].pc = "getShare"
  /\ LET r == Logged(tasks[t])
     IN IF SharedInfoError(store, r.ref) # NoError
        THEN /\ Step(t, Thrown(r, SharedInfoError(store, r.ref)))
             /\ UNCHANGED feed
        ELSE /\ Step(t, Await([r EXCEPT !.info = <<r.ref.of.info>>,
                                        !.address = r.ref.of.info.source_address,
                                        !.topic = combine(r.ref.of.info.meta.file_path,
                                                          r.ref.of.info.meta.file_name)],
                              "resolveFeed"))
             /\ feed' = WriteFeed(feed, <<"key", r.client>>,
                                  combine(r.ref.of.info.meta.file_path,
                                          r.ref.of.info.meta.file_name),
                                  r.ref.of.info.meta)
  /\ UNCHANGED <<store, dir, now, calls>>

\* Mutant: the blocks read through the metadata captured in the capsule,
\* without a look at the sharer's feed.
DownloadSharedFetchCaptured(t) ==
  /\ tasks[t].op = "downloadShared"
  /\ tasks[t].pc = "getShare"
  /\ LET r == Logged(tasks[t])
     IN IF SharedInfoError(store, r.ref) # NoError
        THEN Step(t, Thrown(r, SharedInfoError(store, r.ref)))
        ELSE Step(t, Await([r EXCEPT !.info = <<r.ref.of.info>>,
                                     !.address = r.ref.of.info.source_address,
                                     !.topic = combine(r.ref.of.info.meta.file_path,
                                                       r.ref.of.info.meta.file_name),
                                     !.meta = <<rawFileMetadataToFileMetadata(r.ref.of.info.meta)>>],
                           "getManifest"))
  /\ UNCHANGED <<store, feed, dir, now, calls>>

\* const info = await this.getSharedInfo(fileReference), then the call of the
\* handler's downloadData with the sharer's address and path.
DownloadSharedFetch(t) ==
  /\ tasks[t].op = "downloadShared"
  /\ tasks[t].pc = "getShare"
  /\ LET r == Logged(tasks[t])
     IN IF SharedInfoError(store, r.ref) # NoError
        THEN Step(t, Thrown(r, SharedInfoError(store, r.ref)))
        ELSE Step(t, Await([r EXCEPT !.info = <<r.ref.of.info>>,
                                     !.address = r.ref.of.info.source_address,
                                     !.topic = combine(r.ref.of.info.meta.file_path,
                                                       r.ref.of.info.meta.file_name)],
                           "resolveFeed"))
  /\ UNCHANGED <<store, feed, dir, now, calls>>

\* --------------------------------------------------- downloadFromSharedPod

\* Mutant: the reference handed to the store unchecked.
SharedPodValidateNothing(c) == NoError
\* downloadFromSharedPod's statement before its await.
SharedPodValidate(c) ==
  IF ~IsEncryptedReference(c.ref) THEN "InvalidReference" ELSE NoError

StartDownloadFromSharedPod(t, c) ==
  /\ c.op = "downloadFromSharedPod"
  /\ CanStart(t)
  /\ calls' = calls + 1
  /\ IF SharedPodValidate(c) # NoError
     THEN Step(t, Thrown(NewTask(c), SharedPodValidate(c)))
     ELSE Step(t, Await(NewTask(c), "getPodShare"))
  /\ UNCHANGED <<store, feed, dir, now>>

\* getSharedPodInfo(bee, podReference): the error of fetching and parsing the
\* pod's capsule, or NoError.
SharedPodError(s, ref) ==
  IF ~InStore(s, ref) THEN "NotFound"
  ELSE IF ref.of.kind # "podShare" THEN "CorruptShareInfo"
  ELSE NoError

DownloadFromSharedPodFetch(t) ==
  /\ tasks[t].op = "downloadFromSharedPod"
  /\ tasks[t].pc = "getPodShare"
  /\ LET r == Logged(tasks[t])
     IN IF SharedPodError(store, r.ref) # NoError
        THEN Step(t, Thrown(r, SharedPodError(store, r.ref)))
        ELSE Step(t, Await([r EXCEPT !.address = r.ref.of.info.pod_address,
                                     !.topic = r.path],
                           "resolveFeed"))
  /\ UNCHANGED <<store, feed, dir, now, calls>>

\* ------------------------------------------------------- transient failure

\* The awaits that are calls to a collaborator over the network.
RemotePcs ==
  {"podLookup", "putBlock", "putManifest", "addEntry", "publish", "resolveFeed",
   "getManifest", "getBlock", "removeEntry", "getMetadata", "putShare", "getShare",
   "getPodShare"}

\* The remote call a task awaits fails (a network or store error): the call
\* throws, and nothing it has written so far is undone.
RemoteFail(t) ==
  /\ tasks[t].pc \in RemotePcs
  /\ Step(t, Thrown(Logged(tasks[t]), "NetworkError"))
  /\ UNCHANGED <<store, feed, dir, now, calls>>

\* ----------------------------------------------------------- specifications

\* uploadData and downloadData of one path of one pod, with every payload
\* length up to MaxLen and block sizes around them (absent: the default).
BlockSizes == {<<>>, <<0 - 1>>, <<0>>, <<1>>, <<2>>, <<3>>}
BlockPath == <<"d", "f">>
BlockCalls ==
  {Call("uploadData", "owner", "pod1", BlockPath, Payload(n), Options(o, <<>>), BadRef, <<>>) :
     n \in 0..MaxLen, o \in BlockSizes}
  \cup {Call("downloadData", "owner", "pod1", BlockPath, <<>>, NoOptions, BadRef, <<>>)}

NextBlocks ==
  \/ \E c \in BlockCalls : calls < MaxBlockCalls /\ StartUpload(1, c)
  \/ \E c \in BlockCalls : calls < MaxBlockCalls /\ StartDownload(1, c)
  \/ UploadLookup(1)
  \/ UploadBlock(1)
  \/ UploadManifest(1)
  \/ UploadAddEntry(1)
  \/ UploadPublish(1)
  \/ DownloadLookup(1)
  \/ HandlerResolve(1)
  \/ HandlerManifest(1)
  \/ HandlerBlock(1)

SpecBlocks == Init /\ [][NextBlocks]_vars

\* uploadData and downloadData where any remote call may fail.
FailCalls ==
  {Call("uploadData", "owner", "pod1", BlockPath, Payload(n), Options(o, <<>>), BadRef, <<>>) :
     n \in {0, 3, MaxLen}, o \in {<<>>, <<2>>}}
  \cup {Call("downloadData", "owner", "pod1", BlockPath, <<>>, NoOptions, BadRef, <<>>)}

NextFail ==
  \/ \E c \in FailCalls : calls < MaxFailCalls /\ StartUpload(1, c)
  \/ \E c \in FailCalls : calls < MaxFailCalls /\ StartDownload(1, c)
  \/ UploadLookup(1)
  \/ UploadBlock(1)
  \/ UploadManifest(1)
  \/ UploadAddEntry(1)
  \/ UploadPublish(1)
  \/ DownloadLookup(1)
  \/ HandlerResolve(1)
  \/ HandlerManifest(1)
  \/ HandlerBlock(1)
  \/ RemoteFail(1)

SpecFail == Init /\ [][NextFail]_vars

\* The references the calls so far have returned from share.
SharedRefs ==
  {hist[k].result[1] : k \in {j \in 1..Len(hist) : hist[j].op = "share" /\ hist[j].pc = "done"}}

\* Upload to one path of pod1, share it, look at the capsule, save it into
\* pod2 or pod1 under the root or a directory, with or without a new name,
\* delete it, and download from either pod.
SharePath == <<"d", "f">>
ShareCalls ==
  {Call("uploadData", "owner", "pod1", SharePath, Payload(3), Options(<<2>>, <<>>), BadRef, <<>>),
   Call("uploadData", "owner", "pod1", SharePath, AltPayload(2), Options(<<>>, <<"text/plain">>), BadRef, <<>>),
   Call("share", "owner", "pod1", SharePath, <<>>, NoOptions, BadRef, <<>>),
   Call("delete", "owner", "pod1", SharePath, <<>>, NoOptions, BadRef, <<>>)}
  \cup {Call("downloadData", "owner", p, path, <<>>, NoOptions, BadRef, <<>>) :
          p \in Pods, path \in {SharePath, <<"d", "g">>, <<"g">>}}
  \cup {Call("getSharedInfo", "guest", "", <<>>, <<>>, NoOptions, ref, <<>>) : ref \in SharedRefs}
  \cup {Call("saveShared", "owner", "pod2", parent, <<>>, NoOptions, ref, name) :
          parent \in {<<>>, <<"d">>}, ref \in SharedRefs, name \in {<<>>, <<"g">>}}

Next ==
  \/ \E c \in ShareCalls : calls < MaxCalls /\ StartUpload(1, c)
  \/ \E c \in ShareCalls : calls < MaxCalls /\ StartDownload(1, c)
  \/ \E c \in ShareCalls : calls < MaxCalls /\ StartDelete(1, c)
  \/ \E c \in ShareCalls : calls < MaxCalls /\ StartShare(1, c)
  \/ \E c \in ShareCalls : calls < MaxCalls /\ StartGetSharedInfo(1, c)
  \/ \E c \in ShareCalls : calls < MaxCalls /\ StartSaveShared(1, c)
  \/ UploadLookup(1)
  \/ UploadBlock(1)
  \/ UploadManifest(1)
  \/ UploadAddEntry(1)
  \/ UploadPublish(1)
  \/ DownloadLookup(1)
  \/ HandlerResolve(1)
  \/ HandlerManifest(1)
  \/ HandlerBlock(1)
  \/ DeleteLookup(1)
  \/ DeleteRemove(1)
  \/ ShareLookup(1)
  \/ ShareGetMetadata(1)
  \/ SharePut(1)
  \/ GetSharedInfoFetch(1)
  \/ SaveSharedFetch(1)
  \/ SaveSharedLookup(1)
  \/ SaveSharedAddEntry(1)
  \/ SaveSharedPublish(1)

Spec == Init /\ [][Next]_vars

\* The network as an earlier session of the account left it: three bytes
\* uploaded to /d/f of pod1 in blocks of two and shared, and pod1 shared.
\* Store, feed and directory are those Spec reaches by that uploadData and
\* share, with the capsule of the shared pod added.
SeedData == Payload(3)
SeedPath == <<"d", "f">>
SeedBlocks == [k \in 1..2 |-> BlockDescriptor(SeedData, k - 1, 2)]
SeedMeta ==
  UploadMeta("pod1", SeedPath, SeedData, 2, DefaultContentType, 0,
             Ref(blocksToManifest(SeedBlocks)))
SeedCapsule == ShareCapsule(getFileMetadataRaw(SeedMeta), PodAddress("pod1"))

\* The directory of the seeded file, with a record of its own in the feed.
SeedDir == <<"d">>

InitShared ==
  /\ store = {BytesObject(CurrentBlock(SeedData, k, 2)) : k \in 0..1}
               \cup {blocksToManifest(SeedBlocks), SeedCapsule, PodShareObject("pod1")}
  /\ feed = WriteFeed(WriteFeed({}, PodWallet("pod1").privateKey, SeedPath,
                                 getFileMetadataRaw(SeedMeta)),
                       PodWallet("pod1").privateKey, SeedDir, DirectoryRecord(<<>>, "d"))
  /\ dir = AddEntry({}, PodWallet("pod1"), extractPathInfo(SeedPath).path,
                    extractPathInfo(SeedPath).filename, TRUE)
  /\ now = 0
  /\ tasks = [t \in Tasks |-> IdleTask]
  /\ calls = 0
  /\ hist = <<>>

\* Every operation called with well-formed and malformed arguments, by the
\* account's owner and by a caller without an account.
CheckPods == {"pod1", "", "nopod"}
CheckPaths == {<<"d", "f">>, <<"d">>, <<>>, <<"d", "">>}
CheckParents == {<<>>, <<"d">>, <<"">>}
CheckNames == {<<>>, <<"g">>, <<"">>}
CheckRefs == {BadRef, MissingRef, Ref(SeedCapsule), Ref(PodShareObject("pod1"))}
CheckCalls ==
  {Call(op, cl, p, path, IF op = "uploadData" THEN SeedData ELSE <<>>,
        IF op = "uploadData" THEN Options(<<2>>, <<>>) ELSE NoOptions, BadRef, <<>>) :
     op \in {"uploadData", "downloadData", "delete", "share"},
     cl \in Clients, p \in CheckPods, path \in CheckPaths}
  \cup {Call(op, cl, "", <<>>, <<>>, NoOptions, ref, <<>>) :
          op \in {"getSharedInfo", "downloadShared"}, cl \in Clients, ref \in CheckRefs}
  \cup {Call("downloadFromSharedPod", cl, "", path, <<>>, NoOptions, ref, <<>>) :
          cl \in Clients, path \in CheckPaths, ref \in CheckRefs}
  \cup {Call("saveShared", cl, p, parent, <<>>, NoOptions, ref, name) :
          cl \in Clients, p \in CheckPods, parent \in CheckParents,
          ref \in CheckRefs, name \in CheckNames}

NextCheck ==
  \/ \E c \in CheckCalls : calls < MaxCheckCalls /\ StartUpload(1, c)
  \/ \E c \in CheckCalls : calls < MaxCheckCalls /\ StartDownload(1, c)
  \/ \E c \in CheckCalls : calls < MaxCheckCalls /\ StartDelete(1, c)
  \/ \E c \in CheckCalls : calls < MaxCheckCalls /\ StartShare(1, c)
  \/ \E c \in CheckCalls : calls < MaxCheckCalls /\ StartGetSharedInfo(1, c)
  \/ \E c \in CheckCalls : calls < MaxCheckCalls /\ StartSaveShared(1, c)
  \/ \E c \in CheckCalls : calls < MaxCheckCalls /\ StartDownloadShared(1, c)
  \/ \E c \in CheckCalls : calls < MaxCheckCalls /\ StartDownloadFromSharedPod(1, c)
  \/ UploadLookup(1)
  \/ UploadBlock(1)
  \/ UploadManifest(1)
  \/ UploadAddEntry(1)
  \/ UploadPublish(1)
  \/ DownloadLookup(1)
  \/ HandlerResolve(1)
  \/ HandlerManifest(1)
  \/ HandlerBlock(1)
  \/ DeleteLookup(1)
  \/ DeleteRemove(1)
  \/ ShareLookup(1)
  \/ ShareGetMetadata(1)
  \/ SharePut(1)
  \/ GetSharedInfoFetch(1)
  \/ SaveSharedFetch(1)
  \/ SaveSharedLookup(1)
  \/ SaveSharedAddEntry(1)
  \/ SaveSharedPublish(1)
  \/ DownloadSharedFetch(1)
  \/ DownloadFromSharedPodFetch(1)

SpecCheck == InitShared /\ [][NextCheck]_vars

\* ------------------------------------------------------------------ claims

\* The calls in progress and the calls that have ended.
AllCalls == {tasks[t] : t \in Tasks} \cup {hist[k] : k \in 1..Len(hist)}
Ended(op) == {k \in 1..Len(hist) : hist[k].op = op}
Succeeded(op) == {k \in Ended(op) : hist[k].pc = "done"}

\* The bytes of the blocks a sequence of descriptors refers to, in order.
BlockBytes(blocks) == [k \in 1..Len(blocks) |-> blocks[k].reference.of.bytes]

\* C1: an upload with a positive block size that succeeds, followed at once
\* by a download of the same pod and path, makes the download return exactly
\* the uploaded bytes.
C1_UploadThenDownload ==
  \A k \in Succeeded("uploadData") :
    (/\ hist[k].blockSize > 0
     /\ k + 1 <= Len(hist)
     /\ hist[k + 1].op = "downloadData"
     /\ hist[k + 1].pod = hist[k].pod
     /\ hist[k + 1].path = hist[k].path)
    => /\ hist[k + 1].pc = "done"
       /\ hist[k + 1].result[1] = hist[k].data

\* C1 witness: a payload of two full blocks and a remainder came back.
C1_Witness ==
  /\ Len(hist) = 2
  /\ hist[1].op = "uploadData" /\ hist[1].pc = "done"
  /\ hist[1].blockSize = 2 /\ Len(hist[1].data) = 5
  /\ hist[2].op = "downloadData" /\ hist[2].pc = "done"
  /\ hist[2].result[1] = Payload(5)

\* The length of block i of a payload of `length` bytes.
BlockLength(length, i, blockSize) ==
  Max(SliceTo((i + 1) * blockSize, length) - SliceFrom(i * blockSize, length), 0)

\* C2: an upload of L bytes with a positive block size n records exactly
\* ceil(L/n) descriptors, descriptor i named from index i, every one but the
\* last of size n and the last of size 1..n, whose blocks concatenated give
\* the payload; 2,500,000 bytes in blocks of 1,000,000 are cut into
\* 1,000,000; 1,000,000; 500,000.
C2_BlockDescriptors ==
  /\ \A k \in Succeeded("uploadData") :
       LET r == hist[k]
           n == r.blockSize
           L == Len(r.data)
           m == Len(r.blocks)
       IN n > 0 =>
            /\ m * n >= L
            /\ (m - 1) * n < L \/ (m = 0 /\ L = 0)
            /\ \A i \in 1..m : r.blocks[i].name = <<"block", i - 1>>
            /\ \A i \in 1..(m - 1) : r.blocks[i].size = n
            /\ m > 0 => r.blocks[m].size \in 1..n
            /\ \A i \in 1..m : r.blocks[i].size = Len(r.blocks[i].reference.of.bytes)
            /\ Join(BlockBytes(r.blocks)) = r.data
            /\ r.result[1].blocksReference.of = blocksToManifest(r.blocks)
            /\ r.result[1].fileSize = L
  /\ BlocksCount(2500000, DefaultBlockSize) = [kind |-> "num", n |-> 3]
  /\ [i \in 0..2 |-> BlockLength(2500000, i, DefaultBlockSize)]
       = [i \in 0..2 |-> IF i < 2 THEN 1000000 ELSE 500000]

\* C2 witness: five bytes uploaded in blocks of two gave sizes 2, 2, 1.
C2_Witness ==
  \E k \in Succeeded("uploadData") :
    /\ hist[k].blockSize = 2
    /\ Len(hist[k].data) = 5
    /\ [i \in 1..Len(hist[k].blocks) |-> hist[k].blocks[i].size] = <<2, 2, 1>>

\* The places of a remote call in a log.
Places(log, what) == {k \in 1..Len(log) : log[k] = what}

\* C3: in every uploadData call the manifest is put after the put of every
\* block of the payload, and the feed is published after the manifest put;
\* whatever the feed holds refers to a manifest and to blocks that are in
\* the store.
C3_ManifestAfterBlocksFeedAfterManifest ==
  /\ \A r \in AllCalls :
       r.op = "uploadData" =>
         /\ \A a \in Places(r.log, "putManifest") :
              /\ \A b \in Places(r.log, "putBlock") : b < a
              /\ r.blockSize > 0 =>
                   Cardinality(Places(r.log, "putBlock")) * r.blockSize >= Len(r.data)
         /\ \A a \in Places(r.log, "publish") :
              /\ Places(r.log, "putManifest") # {}
              /\ \A b \in Places(r.log, "putManifest") \cup Places(r.log, "putBlock") : b < a
  /\ \A e \in feed :
       /\ InStore(store, e.payload.file_inode_address)
       /\ \A k \in 1..Len(ManifestBlocks(e.payload.file_inode_address.of)) :
            InStore(store, ManifestBlocks(e.payload.file_inode_address.of)[k].reference)

\* C3 witness: an upload of two blocks has published its metadata.
C3_Witness ==
  \E k \in Succeeded("uploadData") :
    /\ hist[k].log = <<"podLookup", "putBlock", "putBlock", "putManifest", "addEntry", "publish">>
    /\ feed # {}

\* C4: when no upload is about to publish, every file entry of the directory
\* is of a path whose feed has been published: a failed upload leaves no
\* entry for a path without metadata.
C4_NoEntryWithoutFeed ==
  \A d \in dir :
    \/ ResolveFeed(feed, d.owner, combine(d.path, d.name)) # {}
    \/ \E t \in Tasks : tasks[t].op = "uploadData" /\ tasks[t].pc = "publish"

\* C5: an upload called with a block size of zero or less publishes nothing
\* and ends in an error.
C5_NonPositiveBlockSizeRejected ==
  \A r \in AllCalls :
    (r.op = "uploadData" /\ r.pc # "idle" /\ r.blockSize <= 0) =>
      /\ Places(r.log, "publish") = {}
      /\ r.pc # "done"

\* The operations that take a pod name and a path.
PathOps == {"uploadData", "downloadData", "delete", "share", "saveShared"}
\* The operations that take the reference of a capsule.
ReferenceOps == {"getSharedInfo", "saveShared", "downloadShared", "downloadFromSharedPod"}

\* A call whose pod name, path or file name is malformed. saveShared takes
\* the parent path and, as an option, the file name.
MalformedArguments(r) ==
  \/ ~ValidPodName(r.pod)
  \/ r.op \in {"uploadData", "downloadData", "delete", "share"} /\ ~ValidFullPathWithName(r.path)
  \/ r.op = "saveShared" /\ \E k \in 1..Len(r.path) : r.path[k] = ""
  \/ r.op = "saveShared" /\ r.name = <<"">>

\* C6: a call of an operation taking a pod name or a path, made with a
\* malformed pod name, path or file name, makes no remote call.
C6_MalformedArgumentsNoRemoteCall ==
  \A r \in AllCalls :
    (r.op \in PathOps /\ MalformedArguments(r)) => r.log = <<>>

\* C7 as stated: a call given a reference that is not of the encrypted
\* shape fails with InvalidReference and has made no remote call.
C7_MalformedReferenceInvalidReference ==
  \A k \in 1..Len(hist) :
    (hist[k].op \in ReferenceOps /\ ~IsEncryptedReference(hist[k].ref)) =>
      /\ hist[k].pc = "failed"
      /\ hist[k].error = "InvalidReference"
      /\ hist[k].log = <<>>

\* C7 amended: a call given a reference that is not of the encrypted shape
\* fails having made no remote call, with InvalidReference, or, for
\* saveShared called with a malformed pod name too, with the error of the
\* pod name, which saveShared checks first.
C7_MalformedReferenceRejectedLocally ==
  /\ \A r \in AllCalls :
       (r.op \in ReferenceOps /\ ~IsEncryptedReference(r.ref)) => r.log = <<>>
  /\ \A k \in 1..Len(hist) :
       (hist[k].op \in ReferenceOps /\ ~IsEncryptedReference(hist[k].ref)) =>
         /\ hist[k].pc = "failed"
         /\ IF hist[k].op = "saveShared" /\ ~ValidPodName(hist[k].pod)
            THEN hist[k].error = "InvalidPodName"
            ELSE hist[k].error = "InvalidReference"

\* C7 witness: each of the four operations has rejected a malformed
\* reference, downloadFromSharedPod the latest.
C7_Witness ==
  /\ hist # <<>>
  /\ hist[Len(hist)].op = "downloadFromSharedPod"
  /\ hist[Len(hist)].ref = BadRef
  /\ hist[Len(hist)].error = "InvalidReference"
  /\ hist[Len(hist)].log = <<>>

\* The directory entry of the file a call names by pod and full path.
EntryOf(r) ==
  DirEntry(PodWallet(r.pod), extractPathInfo(r.path).path, extractPathInfo(r.path).filename, TRUE)

\* Call k + 1 is `op` on the pod and path of call k, and returned.
SamePathNext(k, op) ==
  /\ k + 1 <= Len(hist)
  /\ hist[k + 1].op = op
  /\ hist[k + 1].pc = "done"
  /\ hist[k + 1].pod = hist[k].pod
  /\ hist[k + 1].path = hist[k].path

\* C8: the step in which delete returns takes the entry of the path out of
\* the directory and changes neither the store nor the feed; and after an
\* upload and a delete of a path, a download of the path still returns the
\* uploaded bytes.
C8_DeleteRemovesOnlyTheEntry ==
  /\ [][\A t \in Tasks :
          (tasks[t].op = "delete" /\ tasks[t].pc = "removeEntry"
             /\ Len(hist') = Len(hist) + 1 /\ hist'[Len(hist')].pc = "done")
          => /\ store' = store
             /\ feed' = feed
             /\ dir' = dir \ {EntryOf(tasks[t])}]_vars
  /\ [](\A k \in Succeeded("uploadData") :
          (/\ SamePathNext(k, "delete")
           /\ k + 2 <= Len(hist)
           /\ hist[k + 2].op = "downloadData"
           /\ hist[k + 2].pod = hist[k].pod
           /\ hist[k + 2].path = hist[k].path)
          => /\ hist[k + 2].pc = "done"
             /\ hist[k + 2].result[1] = hist[k].data)

\* C8 witness: uploaded, deleted, downloaded, with the entry gone from the
\* directory and the bytes returned.
C8_Witness ==
  /\ Len(hist) = 3
  /\ hist[1].op = "uploadData" /\ hist[1].pc = "done"
  /\ SamePathNext(1, "delete")
  /\ hist[3].op = "downloadData" /\ hist[3].pc = "done" /\ hist[3].path = hist[1].path
  /\ hist[3].pod = hist[1].pod
  /\ hist[3].result[1] = Payload(3)
  /\ EntryOf(hist[1]) \notin dir

\* C9: after an upload to pod1, a share of the file and a saveShared of the
\* returned reference into pod2, a download from pod2 of the parent path
\* and the file name (the name given, or else the original) returns the
\* uploaded bytes.
C9_ShareRoundTrip ==
  \A k \in Succeeded("uploadData") :
    (/\ SamePathNext(k, "share")
     /\ k + 3 <= Len(hist)
     /\ hist[k + 2].op = "saveShared" /\ hist[k + 2].pc = "done"
     /\ hist[k + 2].ref = hist[k + 1].result[1]
     /\ hist[k + 3].op = "downloadData"
     /\ hist[k + 3].pod = hist[k + 2].pod
     /\ hist[k + 3].path =
          Append(hist[k + 2].path,
                 IF hist[k + 2].name = <<>> THEN hist[k].path[Len(hist[k].path)]
                 ELSE hist[k + 2].name[1]))
    => /\ hist[k + 3].pc = "done"
       /\ hist[k + 3].result[1] = hist[k].data

\* C9 witness: the file saved into the root of pod2 under a new name came
\* back from pod2 with the uploaded bytes.
C9_Witness ==
  /\ Len(hist) = 4
  /\ hist[1].op = "uploadData" /\ hist[1].pc = "done" /\ hist[1].pod = "pod1"
  /\ SamePathNext(1, "share")
  /\ hist[3].op = "saveShared" /\ hist[3].pc = "done" /\ hist[3].pod = "pod2"
  /\ hist[3].ref = hist[2].result[1]
  /\ hist[3].name = <<"g">> /\ hist[3].path = <<>>
  /\ hist[4].op = "downloadData" /\ hist[4].pc = "done"
  /\ hist[4].pod = "pod2" /\ hist[4].path = <<"g">>
  /\ hist[4].result[1] = hist[1].data

\* C10: after an upload and a share of the file, getSharedInfo of the
\* returned reference gives the file path, the file name and the file size
\* of the upload, and the address of the sharer's pod.
C10_SharedInfoOfUpload ==
  \A k \in Succeeded("uploadData") :
    (/\ SamePathNext(k, "share")
     /\ k + 2 <= Len(hist)
     /\ hist[k + 2].op = "getSharedInfo"
     /\ hist[k + 2].ref = hist[k + 1].result[1])
    => /\ hist[k + 2].pc = "done"
       /\ hist[k + 2].result[1].meta.file_path = SubSeq(hist[k].path, 1, Len(hist[k].path) - 1)
       /\ hist[k + 2].result[1].meta.file_name = hist[k].path[Len(hist[k].path)]
       /\ hist[k + 2].result[1].meta.file_size = Len(hist[k].data)
       /\ hist[k + 2].result[1].source_address = <<"address", hist[k].pod>>

\* C10 witness: a caller without an account has read the capsule of the
\* three uploaded bytes.
C10_Witness ==
  /\ Len(hist) >= 3
  /\ hist[1].op = "uploadData" /\ hist[1].pc = "done" /\ Len(hist[1].data) = 3
  /\ SamePathNext(1, "share")
  /\ hist[3].op = "getSharedInfo" /\ hist[3].pc = "done"
  /\ hist[3].ref = hist[2].result[1]
  /\ hist[3].result[1].meta.file_size = 3

\* The steps of a call of `op`: its first statement and each of its
\* continuations.
StepOf(t, op) ==
  /\ tasks'[t] # tasks[t]
  /\ tasks[t].op = op \/ (tasks[t].pc = "idle" /\ hist' = hist /\ tasks'[t].op = op)
     \/ (tasks[t].pc = "idle" /\ hist' # hist /\ hist'[Len(hist')].op = op)
\* The continuation of a call of `op` after the remote call `pc`.
StepAfter(t, op, pc) == tasks'[t] # tasks[t] /\ tasks[t].op = op /\ tasks[t].pc = pc

\* C11: saveShared uploads no block and no manifest. No step of it puts
\* anything into the store, it changes the directory index only by its one
\* addEntry and the feeds only by its one publish, and the metadata it
\* publishes and returns for the importing pod carries the blocksReference
\* and the fileSize of the capsule's metadata.
C11_SaveSharedUploadsNothing ==
  /\ [][\A t \in Tasks :
          StepOf(t, "saveShared")
          => /\ store' = store
             /\ dir' # dir => tasks[t].pc = "addEntry"
             /\ feed' # feed
                => /\ tasks[t].pc = "publish"
                   /\ \E e \in feed' \ feed :
                        /\ e.owner = PodAddress(tasks[t].pod)
                        /\ e.payload.file_inode_address
                             = tasks[t].ref.of.info.meta.file_inode_address
                        /\ e.payload.file_size = tasks[t].ref.of.info.meta.file_size]_vars
  /\ [](\A k \in Succeeded("saveShared") :
          /\ hist[k].log = <<"getShare", "podLookup", "addEntry", "publish">>
          /\ hist[k].result[1].blocksReference = hist[k].ref.of.info.meta.file_inode_address
          /\ hist[k].result[1].fileSize = hist[k].ref.of.info.meta.file_size)

\* C11 witness: a saveShared of the capsule of a three-byte file has ended,
\* the store is what the upload and the share left, and the feed of the
\* importing pod holds the manifest reference of the upload.
C11_Witness ==
  /\ Len(hist) = 3
  /\ hist[1].op = "uploadData" /\ hist[1].pc = "done" /\ Len(hist[1].data) = 3
  /\ hist[2].op = "share" /\ hist[2].pc = "done"
  /\ hist[3].op = "saveShared" /\ hist[3].pc = "done"
  /\ hist[3].result[1].blocksReference = hist[1].result[1].blocksReference
  /\ hist[3].result[1].fileSize = 3
  /\ Cardinality(store) = 4
  /\ \E e \in feed : /\ e.owner = PodAddress("pod2")
                     /\ e.payload.file_inode_address = hist[1].result[1].blocksReference
  /\ \E e \in dir : e.owner = PodWallet("pod2").address

\* C12: downloadShared and downloadFromSharedPod only read. No step of
\* either changes the content store, a feed or a directory index.
C12_SharedDownloadsReadOnly ==
  [][\A t \in Tasks :
       StepOf(t, "downloadShared") \/ StepOf(t, "downloadFromSharedPod")
       => /\ store' = store
          /\ feed' = feed
          /\ dir' = dir]_vars

\* C12 witness: downloadShared has returned the shared file's three bytes
\* and the store, the feed and the directory are the ones it found.
C12_Witness ==
  /\ Len(hist) = 1
  /\ hist[1].op = "downloadShared" /\ hist[1].pc = "done"
  /\ hist[1].log = <<"getShare", "resolveFeed", "getManifest", "getBlock", "getBlock">>
  /\ hist[1].result[1] = SeedData
  /\ store = {BytesObject(CurrentBlock(SeedData, k, 2)) : k \in 0..1}
               \cup {blocksToManifest(SeedBlocks), SeedCapsule, PodShareObject("pod1")}
  /\ ResolveFeed(feed, PodAddress("pod1"), SeedPath)
       = WriteFeed({}, PodWallet("pod1").privateKey, SeedPath, getFileMetadataRaw(SeedMeta))
  /\ Cardinality(feed) = 2
  /\ Cardinality(dir) = 1

SharedReadOps == {"getSharedInfo", "downloadShared", "downloadFromSharedPod"}

\* C13: the reads through a share reference need no account. A call of
\* getSharedInfo, downloadShared or downloadFromSharedPod by a caller without
\* an account never fails with NotAuthenticated, and it succeeds when its
\* reference is that of a stored capsule of its kind (and, for
\* downloadFromSharedPod, the path is that of a file of the shared pod). The
\* store and the feed are looked at when the call has just ended: they are
\* the ones it read.
C13_SharedReadsNeedNoAccount ==
  /\ \A r \in AllCalls :
       (r.op \in SharedReadOps /\ ~HasAccount(r.client)) => r.error # "NotAuthenticated"
  /\ (Len(hist) > 0 /\ \A t \in Tasks : tasks[t].pc = "idle")
     => LET r == hist[Len(hist)]
        IN (/\ r.op \in SharedReadOps
            /\ ~HasAccount(r.client)
            /\ InStore(store, r.ref)
            /\ \/ r.op \in {"getSharedInfo", "downloadShared"} /\ r.ref.of.kind = "fileShare"
               \/ /\ r.op = "downloadFromSharedPod" /\ r.ref.of.kind = "podShare"
                  /\ \E e \in ResolveFeed(feed, r.ref.of.info.pod_address, r.path) :
                       IsRawFileMetadata(e.payload))
           => r.pc = "done"

\* C13 witness: a caller without an account has downloaded a file of the
\* shared pod through the pod's reference.
C13_Witness ==
  \E k \in 1..Len(hist) :
    /\ hist[k].op = "downloadFromSharedPod" /\ hist[k].client = "guest"
    /\ hist[k].ref = Ref(PodShareObject("pod1"))
    /\ hist[k].pc = "done"
    /\ hist[k].result[1] = SeedData

\* C14: in every metadata record uploadData publishes or returns, fileSize
\* is the sum of the size fields of the descriptors in the manifest that
\* blocksReference addresses, whatever payload and block size the call took.
C14_FileSizeIsSumOfBlockSizes ==
  /\ \A k \in Succeeded("uploadData") :
       hist[k].result[1].fileSize
         = SumSizes(ManifestBlocks(hist[k].result[1].blocksReference.of))
  /\ \A e \in feed :
       e.payload.file_size = SumSizes(ManifestBlocks(e.payload.file_inode_address.of))

AccountOps == {"uploadData", "downloadData", "delete", "share"}
WritePcs == {"putBlock", "putManifest", "putShare", "addEntry", "removeEntry", "publish"}

\* C15: uploadData, downloadData, delete and share called without an account
\* fail with NotAuthenticated, whatever their arguments, and write nothing:
\* the call reaches no store put, no directory change and no feed publish,
\* and store, directory and feeds are the same after the call as before.
C15_NoAccountNoWrite ==
  /\ [](\A r \in AllCalls :
          (r.op \in AccountOps /\ ~HasAccount(r.client))
          => /\ r.pc = "failed"
             /\ r.error = "NotAuthenticated"
             /\ \A k \in 1..Len(r.log) : r.log[k] \notin WritePcs)
  /\ [][\A t \in Tasks :
          (/\ \E op \in AccountOps : StepOf(t, op)
           /\ Len(hist') > Len(hist)
           /\ ~HasAccount(hist'[Len(hist')].client))
          => /\ store' = store
             /\ feed' = feed
             /\ dir' = dir]_vars

\* C15 witness: a delete of the shared file by a caller without an account
\* has failed and the file's directory entry and feed are still there.
C15_Witness ==
  /\ Len(hist) = 1
  /\ hist[1].op = "delete" /\ hist[1].client = "guest"
  /\ hist[1].pod = "pod1" /\ hist[1].path = SeedPath
  /\ hist[1].pc = "failed" /\ hist[1].error = "NotAuthenticated"
  /\ dir # {}
  /\ feed # {}

\* --------------------------------------------------------- concurrent calls

\* Two tasks calling uploadData (two payloads of three bytes, in blocks of
\* two), delete and downloadData on one path of one pod. A call runs up to
\* its next await, then any task may go on.
RacePath == <<"d", "f">>
RaceCalls ==
  {Call("uploadData", "owner", "pod1", RacePath, data, Options(<<2>>, <<>>), BadRef, <<>>) :
     data \in {Payload(3), AltPayload(3)}}
  \cup {Call(op, "owner", "pod1", RacePath, <<>>, NoOptions, BadRef, <<>>) :
          op \in {"delete", "downloadData"}}

NextRace ==
  \/ \E t \in Tasks, c \in RaceCalls : calls < MaxRaceCalls /\ StartUpload(t, c)
  \/ \E t \in Tasks, c \in RaceCalls : calls < MaxRaceCalls /\ StartDelete(t, c)
  \/ \E t \in Tasks, c \in RaceCalls : calls < MaxRaceCalls /\ StartDownload(t, c)
  \/ \E t \in Tasks : UploadLookup(t)
  \/ \E t \in Tasks : UploadBlock(t)
  \/ \E t \in Tasks : UploadManifest(t)
  \/ \E t \in Tasks : UploadAddEntry(t)
  \/ \E t \in Tasks : UploadPublish(t)
  \/ \E t \in Tasks : DeleteLookup(t)
  \/ \E t \in Tasks : DeleteRemove(t)
  \/ \E t \in Tasks : DownloadLookup(t)
  \/ \E t \in Tasks : HandlerResolve(t)
  \/ \E t \in Tasks : HandlerManifest(t)
  \/ \E t \in Tasks : HandlerBlock(t)

SpecRace == Init /\ [][NextRace]_vars

\* The feed entry of the path is the metadata the upload `r` returned.
FeedHolds(f, r) ==
  ResolveFeed(f, PodAddress(r.pod), r.path)
    = {[owner |-> PodAddress(r.pod), topic |-> r.path,
        payload |-> getFileMetadataRaw(r.result[1])]}

\* C16: with a delete and an uploadData of one path running together, the
\* directory entry and the feed are each decided by their own last writer.
\* The entry is in the directory after the upload's addEntry and out of it
\* after the delete's removeEntry, and nothing else changes the directory;
\* the feed changes only by the upload's publish, which leaves the upload's
\* metadata in it, so that once the calls have ended the feed holds the
\* metadata of the upload that ended last, whatever the delete did.
C16_DeleteUploadLastWriter ==
  /\ [][/\ \A t \in Tasks :
             /\ StepAfter(t, "uploadData", "addEntry") => EntryOf(tasks[t]) \in dir'
             /\ StepAfter(t, "delete", "removeEntry") => EntryOf(tasks[t]) \notin dir'
             /\ StepAfter(t, "uploadData", "publish")
                => FeedHolds(feed', hist'[Len(hist')])
        /\ dir' # dir => \E t \in Tasks : \/ StepAfter(t, "uploadData", "addEntry")
                                          \/ StepAfter(t, "delete", "removeEntry")
        /\ feed' # feed => \E t \in Tasks : StepAfter(t, "uploadData", "publish")]_vars
  /\ [](\A k \in Succeeded("uploadData") :
          (/\ \A j \in Succeeded("uploadData") : j <= k
           /\ \A t \in Tasks : tasks[t].op # "uploadData")
          => FeedHolds(feed, hist[k]))

\* C16 witness: the delete started while the upload was running and ended
\* first, after the upload's addEntry; both have returned, the feed holds
\* the upload's metadata and the path is not in the directory.
C16_Witness ==
  /\ Len(hist) = 2
  /\ hist[1].op = "delete" /\ hist[1].pc = "done" /\ hist[1].after = 0
  /\ hist[2].op = "uploadData" /\ hist[2].pc = "done" /\ hist[2].after = 0
  /\ FeedHolds(feed, hist[2])
  /\ EntryOf(hist[2]) \notin dir

\* Call k ran alone: no call ended while it ran and no call that ended
\* after it, or is still running, was made before it ended.
RanAlone(k) ==
  /\ hist[k].after = k - 1
  /\ \A m \in (k + 1)..Len(hist) : hist[m].after >= k
  /\ \A t \in Tasks : tasks[t].pc # "idle" => tasks[t].after >= k

\* C19: uploads of one path, running together or one after the other, leave
\* the path with the payload of one of them. A download made once they have
\* ended returns exactly the payload of the upload that published last (the
\* one that ended last), and no download, whenever it runs, returns bytes
\* that are not the payload of one upload.
C19_ConcurrentUploadsNoMixture ==
  \A k \in Ended("downloadData") :
    LET ups == {j \in Succeeded("uploadData") : j < k}
    IN /\ (ups # {} /\ RanAlone(k))
          => /\ hist[k].pc = "done"
             /\ \E j \in ups : /\ \A i \in ups : i <= j
                               /\ hist[k].result[1] = hist[j].data
       /\ hist[k].pc = "done"
          => \E c \in RaceCalls : c.op = "uploadData" /\ hist[k].result[1] = c.data

\* C19 witness: two uploads of different payloads ran together, and the
\* download made after both returned the payload of the one that ended last.
C19_Witness ==
  /\ Len(hist) = 3
  /\ hist[1].op = "uploadData" /\ hist[1].pc = "done" /\ hist[1].after = 0
  /\ hist[2].op = "uploadData" /\ hist[2].pc = "done" /\ hist[2].after = 0
  /\ hist[1].data # hist[2].data
  /\ hist[3].op = "downloadData" /\ hist[3].pc = "done" /\ hist[3].after = 2
  /\ hist[3].result[1] = hist[2].data

\* ------------------------------------------------------------------- clock

\* The clock getUnixTimestamp reads moves on by a second.
Tick ==
  /\ now < MaxTime
  /\ now' = now + 1
  /\ UNCHANGED <<store, feed, dir, tasks, calls, hist>>

\* Uploads of one path, one after the other, while the clock runs.
TimePath == <<"d", "f">>
TimeCalls ==
  {Call("uploadData", "owner", "pod1", TimePath, data, o, BadRef, <<>>) :
     data \in {Payload(1), AltPayload(2)},
     o \in {NoOptions, Options(<<>>, <<"text/plain">>), Options(<<2>>, <<"text/plain">>)}}

NextTime ==
  \/ \E c \in TimeCalls : calls < MaxTimeCalls /\ StartUpload(1, c)
  \/ UploadLookup(1)
  \/ UploadBlock(1)
  \/ UploadManifest(1)
  \/ UploadAddEntry(1)
  \/ UploadPublish(1)
  \/ Tick

SpecTime == Init /\ [][NextTime]_vars

\* C17: the creationTime of a path is set by the first upload of it and kept
\* by every later one: two uploads of one path that succeed return, and
\* publish, the same creationTime.
C17_CreationTimeKept ==
  \A i \in Succeeded("uploadData") : \A j \in Succeeded("uploadData") :
    (i < j /\ hist[i].pod = hist[j].pod /\ hist[i].path = hist[j].path)
    => /\ hist[j].result[1].creationTime = hist[i].result[1].creationTime
       /\ \A e \in ResolveFeed(feed, PodAddress(hist[j].pod), hist[j].path) :
            e.payload.creation_time = hist[i].result[1].creationTime

\* The directory entries of the pod and path of call r, file or not.
EntriesOf(d, r) ==
  {e \in d : /\ e.owner = PodWallet(r.pod).address
             /\ e.path = extractPathInfo(r.path).path
             /\ e.name = extractPathInfo(r.path).filename}

\* C18: an upload to a path that an earlier upload wrote overwrites it
\* without error. The second call succeeds, when it has returned the
\* directory holds exactly one entry for the leaf name, and a download of
\* the path that follows returns the second payload.
C18_ReuploadOverwrites ==
  \A k \in Succeeded("uploadData") :
    (/\ k + 1 <= Len(hist)
     /\ hist[k + 1].op = "uploadData"
     /\ hist[k + 1].pod = hist[k].pod
     /\ hist[k + 1].path = hist[k].path)
    => /\ hist[k + 1].pc = "done"
       /\ (Len(hist) = k + 1 /\ \A t \in Tasks : tasks[t].pc = "idle")
          => Cardinality(EntriesOf(dir, hist[k])) = 1
       /\ (/\ k + 2 <= Len(hist)
           /\ hist[k + 2].op = "downloadData"
           /\ hist[k + 2].pod = hist[k].pod
           /\ hist[k + 2].path = hist[k].path)
          => /\ hist[k + 2].pc = "done"
             /\ hist[k + 2].result[1] = hist[k + 1].data

\* C18 witness: three bytes uploaded, then two other bytes to the same
\* path, one entry in the directory, and the download returned the two.
C18_Witness ==
  /\ Len(hist) = 3
  /\ hist[1].op = "uploadData" /\ hist[1].pc = "done" /\ hist[1].data = Payload(3)
  /\ hist[2].op = "uploadData" /\ hist[2].pc = "done" /\ hist[2].data = AltPayload(2)
  /\ hist[2].path = hist[1].path
  /\ hist[3].op = "downloadData" /\ hist[3].pc = "done"
  /\ hist[3].pod = "pod1" /\ hist[3].path = hist[1].path
  /\ hist[3].result[1] = AltPayload(2)
  /\ Cardinality(EntriesOf(dir, hist[1])) = 1

\* ------------------------------------------------- a share and a re-upload

\* One path of pod1 uploaded with one payload or another, shared, read
\* through the share by a caller without an account, saved into the root of
\* pod2 and downloaded from there.
LivePath == <<"d", "f">>
LiveCalls ==
  {Call("uploadData", "owner", "pod1", LivePath, data, Options(<<2>>, <<>>), BadRef, <<>>) :
     data \in {Payload(3), AltPayload(3)}}
  \cup {Call("share", "owner", "pod1", LivePath, <<>>, NoOptions, BadRef, <<>>),
        Call("downloadData", "owner", "pod2", <<"f">>, <<>>, NoOptions, BadRef, <<>>)}
  \cup {Call("downloadShared", "guest", "", <<>>, <<>>, NoOptions, ref, <<>>) : ref \in SharedRefs}
  \cup {Call("saveShared", "owner", "pod2", <<>>, <<>>, NoOptions, ref, <<>>) : ref \in SharedRefs}

NextLive ==
  \/ \E c \in LiveCalls : calls < MaxLiveCalls /\ StartUpload(1, c)
  \/ \E c \in LiveCalls : calls < MaxLiveCalls /\ StartShare(1, c)
  \/ \E c \in LiveCalls : calls < MaxLiveCalls /\ StartDownload(1, c)
  \/ \E c \in LiveCalls : calls < MaxLiveCalls /\ StartDownloadShared(1, c)
  \/ \E c \in LiveCalls : calls < MaxLiveCalls /\ StartSaveShared(1, c)
  \/ UploadLookup(1)
  \/ UploadBlock(1)
  \/ UploadManifest(1)
  \/ UploadAddEntry(1)
  \/ UploadPublish(1)
  \/ ShareLookup(1)
  \/ ShareGetMetadata(1)
  \/ SharePut(1)
  \/ DownloadLookup(1)
  \/ HandlerResolve(1)
  \/ HandlerManifest(1)
  \/ HandlerBlock(1)
  \/ DownloadSharedFetch(1)
  \/ SaveSharedFetch(1)
  \/ SaveSharedLookup(1)
  \/ SaveSharedAddEntry(1)
  \/ SaveSharedPublish(1)

SpecLive == Init /\ [][NextLive]_vars

\* The last of a non-empty set of places in the history.
Last(ks) == CHOOSE k \in ks : \A j \in ks : j <= k

\* C20: downloadShared reads through the sharer's feed as it is now, and
\* saveShared republishes the blocksReference the capsule captured. A
\* downloadShared returns the payload of the last upload of the shared path
\* made before it, made before the share or after it; a download of the copy
\* a saveShared left in the importing pod returns the payload of the upload
\* whose manifest the capsule refers to.
C20_LiveShareFrozenCopy ==
  /\ \A k \in Succeeded("downloadShared") :
       LET ups == {j \in Succeeded("uploadData") : j < k}
       IN hist[k].result[1] = hist[Last(ups)].data
  /\ \A k \in Ended("downloadData") :
       LET saves == {m \in Succeeded("saveShared") : m < k}
       IN saves # {}
          => /\ hist[k].pc = "done"
             /\ \A j \in Succeeded("uploadData") :
                  hist[j].result[1].blocksReference
                    = hist[Last(saves)].ref.of.info.meta.file_inode_address
                  => hist[k].result[1] = hist[j].data

\* C20 witness: three bytes uploaded and shared, three other bytes uploaded
\* to the same path; downloadShared of the reference returned the new bytes,
\* the saveShared of the same reference left pod2 a record with the manifest
\* of the old ones, and the download from pod2 returned the old bytes.
C20_Witness ==
  /\ Len(hist) = 6
  /\ hist[1].op = "uploadData" /\ hist[1].pc = "done" /\ hist[1].data = Payload(3)
  /\ hist[2].op = "share" /\ hist[2].pc = "done"
  /\ hist[3].op = "uploadData" /\ hist[3].pc = "done" /\ hist[3].data = AltPayload(3)
  /\ hist[4].op = "downloadShared" /\ hist[4].pc = "done"
  /\ hist[4].ref = hist[2].result[1]
  /\ hist[4].result[1] = AltPayload(3)
  /\ hist[5].op = "saveShared" /\ hist[5].pc = "done"
  /\ hist[5].ref = hist[2].result[1]
  /\ hist[5].result[1].blocksReference = hist[1].result[1].blocksReference
  /\ hist[5].result[1].blocksReference # hist[3].result[1].blocksReference
  /\ hist[6].op = "downloadData" /\ hist[6].pc = "done" /\ hist[6].pod = "pod2"
  /\ hist[6].result[1] = Payload(3)

====
